---- MODULE Spec2Model ----
(***************************************************************************)
(* Model of j_staget.client.fetch: the paginated J-STAGE search client.    *)
(*                                                                         *)
(* One call of fetch is modelled.  FetchCall is the part of fetch that     *)
(* runs before the loop (validation, base_params, session); every other    *)
(* action is one iteration of the `while True` loop, one action per kind   *)
(* of response the remote service can give, each including the return or   *)
(* raise it leads to and the `finally` clause.                             *)
(*                                                                         *)
(* Strings are sequences of characters (a multi-letter word such as        *)
(* "ERR_001" stands for a run of non-blank characters), so that strip(),   *)
(* int() and str() are computed and not assumed.  An optional value is a   *)
(* sequence of length 0 (None) or 1; this is also exactly the shape of the *)
(* xpath result lists the code tests with `if status:` / `if tr:`.         *)
(***************************************************************************)
EXTENDS Integers, Sequences, FiniteSets, TLC

\* ------------------------------------------------------------------ bounds
MaxRecords == 5       \* largest max_records argument tried
MaxStep    == 3       \* largest step (page size) argument tried

MaxEntries == MaxStep + 1        \* a page may hold more entries than `count` asked
MaxTotal   == MaxStep            \* largest totalResults number a page reports

MaxAuthors == 2       \* most author elements of one entry

\* --------------------------------------------------------- optional values
None    == <<>>
Some(x) == <<x>>

\* ----------------------------------------------------------------- strings
WS == " "

RECURSIVE LStrip(_)
LStrip(t) == IF t # <<>> /\ Head(t) = WS THEN LStrip(Tail(t)) ELSE t

RECURSIVE RStrip(_)
RStrip(t) ==
    IF t # <<>> /\ t[Len(t)] = WS THEN RStrip(SubSeq(t, 1, Len(t) - 1)) ELSE t

\* str.strip()
Strip(t) == RStrip(LStrip(t))

DigitChars == <<"0", "1", "2", "3", "4", "5", "6", "7", "8", "9">>

IsDigit(c) == \E i \in 1..Len(DigitChars) : DigitChars[i] = c

DigitVal(c) == (CHOOSE i \in 1..Len(DigitChars) : DigitChars[i] = c) - 1

\* int(t) raises ValueError unless t is a decimal literal
IntParses(t) == t # <<>> /\ \A i \in 1..Len(t) : IsDigit(t[i])

RECURSIVE ToInt(_)
ToInt(t) ==
    IF Len(t) = 1 THEN DigitVal(t[1])
    ELSE ToInt(SubSeq(t, 1, Len(t) - 1)) * Len(DigitChars) + DigitVal(t[Len(t)])

\* str(n) for n >= 0
RECURSIVE Str(_)
Str(n) ==
    IF n < Len(DigitChars) THEN <<DigitChars[n + 1]>>
    ELSE Str(n \div Len(DigitChars)) \o <<DigitChars[(n % Len(DigitChars)) + 1]>>

\* ------------------------------------------------------- module constants
ALLOWED_FIELDS == {"article", "abst", "text", "keyword"}

SEARCH_PARAM_KEYS ==
    {"material", "article", "author", "affil", "keyword", "abst", "text",
     "issn", "cdjournal"}

SENTINEL == <<"ERR_001">>

\* ------------------------------------------------------------ dictionaries
EmptyDict == [k \in {} |-> <<>>]

\* d[k] = v
Put(d, k, v) == [x \in (DOMAIN d) \cup {k} |-> IF x = k THEN v ELSE d[x]]

\* Python truthiness of an optional string: `if material:`
Truthy(o) == o # None /\ o[1] # <<>>

\* ------------------------------------------------------- arguments of fetch
DefaultYear == 1950

DefaultSleep == 5

OptionalArgs == {"material", "author", "affil", "issn", "cdjournal"}

TargetWords ==
    {None, Some(<<>>), Some(<<WS>>), Some(<<"w">>), Some(<<WS, "w", WS>>)}

\* two of the ALLOWED_FIELDS and one that is not
Fields == {"article", "keyword", "title"}

OptTexts == {None, Some(<<>>), Some(<<"x">>)}

\* the keyword arguments material, author, affil, issn, cdjournal of one
\* call: none of them passed, or one of them (as "" or as "x")
OptionalArgSets ==
    {o \in [OptionalArgs -> OptTexts] :
        \A j, k \in OptionalArgs : o[j] # None /\ o[k] # None => j = k}

MaxRecordsArgs == (-1)..MaxRecords

StepArgs == (-1)..MaxStep

SessionArgs == {"None", "supplied"}

\* ------------------------------------------------- responses of the service
\* what session.get / raise_for_status / etree.fromstring can do with a request
RequestFailures == {"transport_error", "http_status_error"}

\* text nodes of <result><status>: xpath text() never yields an empty string
StatusTexts == {SENTINEL, <<WS, "ERR_001", WS>>, <<"ERR_012">>, <<WS>>}

\* text nodes of a totalResults element
TotalTexts ==
    {<<WS>>, <<"x">>, <<WS>> \o Str(MaxTotal) \o <<WS>>}
        \cup {Str(n) : n \in 0..MaxTotal}

\* totalResults elements: in the opensearch namespace with any of the texts,
\* in another namespace with a blank, a malformed or a numeric text
TotalNodes ==
    [ns : {"opensearch"}, text : TotalTexts]
        \cup [ns : {"other"}, text : {<<WS>>, <<"x">>, Str(MaxTotal)}]

\* A parsed document with at most one status element, at most one
\* totalResults element (in the opensearch namespace or in another one) and
\* n atom:entry elements.
Pages ==
    [status : {None} \cup {Some(t) : t \in StatusTexts},
     totals : {None} \cup {Some(t) : t \in TotalNodes},
     n      : 0..MaxEntries]

\* ------------------------------------------------------ atom:entry elements
\* An element below an entry: `text` is its own text as lxml's .text gives it
\* (None when the element has none), `ja` the text nodes of its <ja>
\* children in document order.  A text node is never the empty string.
El(t) == [text |-> t, ja |-> <<>>]

\* the text nodes of the <name> elements of an author, below <ja> or directly
NameTexts == {<<WS>>, <<"A">>, <<WS, "B">>}

NameLists ==
    {<<>>} \cup {<<t>> : t \in NameTexts}
        \cup {<< <<"A">>, <<"A">> >>, << <<WS, "B">>, <<"A">> >>,
              << <<WS>>, <<"A">> >>}

\* an <author> element: the names below its <ja> children and its own names
AuthorElements == [ja : NameLists, name : NameLists]

AuthorLists == UNION {[1..n -> AuthorElements] : n \in 0..MaxAuthors}

\* the element names the paths of the for loop select
EntryTags ==
    {"article_title", "material_title", "cdjournal", "issn", "eIssn",
     "article_link", "pubyear", "doi", "volume", "cdvols", "number",
     "startingPage", "endingPage"}

NoChildren == [t \in EntryTags |-> <<>>]

FullChildren ==
    [NoChildren EXCEPT
        !["article_title"] = << [text |-> Some(<<WS>>), ja |-> << <<"T">> >>] >>,
        !["material_title"] = << El(Some(<<"M">>)) >>,
        !["cdjournal"] = << El(Some(<<"jnl">>)) >>,
        !["issn"] = << El(Some(<<"1234-5678">>)) >>,
        !["article_link"] = << [text |-> None, ja |-> << <<WS>>, <<"http://j/ja">> >>] >>,
        !["pubyear"] = << El(Some(<<"2", "0", "2", "0">>)) >>,
        !["doi"] = << El(Some(<<"10.1234/abcd">>)) >>,
        !["volume"] = << El(Some(<<"7">>)) >>,
        !["cdvols"] = << El(Some(<<WS, "v7", WS>>)) >>,
        !["number"] = << El(None) >>,
        !["startingPage"] = << El(Some(<<"1">>)) >>,
        !["endingPage"] = << El(Some(<<"n.p.">>)) >>]

\* the prism:doi elements of an entry: none, one with a DOI, one without
\* text before one with a DOI, one whose text is "", one whose text is blank
DoiLists ==
    {<<>>,
     << El(Some(<<"10.1234/abcd">>)) >>,
     << El(None), El(Some(<<"10.5/x">>)) >>,
     << El(Some(<<>>)) >>,
     << El(Some(<<WS>>)) >>}

ChildSets == {NoChildren} \cup {[FullChildren EXCEPT !["doi"] = d] : d \in DoiLists}

JaAuthor == [ja |-> << <<"A">> >>, name |-> <<>>]

GenericAuthor == [ja |-> <<>>, name |-> << <<WS, "B">> >>]

\* the entries tried: every list of authors, and every list of DOIs
XmlEntries ==
    [author : AuthorLists, child : {FullChildren}]
        \cup [author : {<<JaAuthor>>}, child : ChildSets]

\* The result set of the remote service: the entry at index id (it repeats
\* after the last of them).
RemoteEntries ==
    << [author |-> <<JaAuthor, GenericAuthor>>, child |-> FullChildren],
       [author |-> <<GenericAuthor>>, child |-> NoChildren],
       [author |-> <<GenericAuthor, GenericAuthor>>,
        child |-> [FullChildren EXCEPT
                     !["doi"] = << El(None), El(Some(<<"10.5/x">>)) >>]],
       [author |-> <<>>,
        child |-> [FullChildren EXCEPT !["doi"] = << El(Some(<<WS>>)) >>]] >>

RemoteEntry(id) == RemoteEntries[((id - 1) % Len(RemoteEntries)) + 1]

\* ------------------------------------------------------------------ _xml.py
\* `if getattr(n, "text", None)`
HasText(n) == n.text # None /\ n.text[1] # <<>>

\* get_texts, on the elements its path selects
get_texts(nodes) ==
    LET s == SelectSeq(nodes, HasText) IN [i \in 1..Len(s) |-> s[i].text[1]]

\* get_first, on the elements its path selects
get_first(nodes) ==
    LET vals == get_texts(nodes) IN IF vals # <<>> THEN Some(vals[1]) ELSE None

NonBlank(t) == Strip(t) # <<>>

\* texts_local, on the text nodes its path selects
texts_local(vals) ==
    LET s == SelectSeq(vals, NonBlank) IN [i \in 1..Len(s) |-> Strip(s[i])]

\* first_local, on the text nodes its path selects
first_local(vals) ==
    LET out == texts_local(vals) IN IF out # <<>> THEN Some(out[1]) ELSE None

\* xpath ./*[local-name()=tag]/*[local-name()='ja']/text()
RECURSIVE JaTexts(_)
JaTexts(elems) ==
    IF elems = <<>> THEN <<>> ELSE Head(elems).ja \o JaTexts(Tail(elems))

\* xpath ./*[local-name()=tag]/text()
RECURSIVE OwnTexts(_)
OwnTexts(elems) ==
    IF elems = <<>> THEN <<>>
    ELSE (IF HasText(Head(elems)) THEN <<Head(elems).text[1]>> ELSE <<>>)
            \o OwnTexts(Tail(elems))

\* xpath ./*[local-name()=tag]//text(): document order, an element's own
\* text before the text of its children
RECURSIVE AllTexts(_)
AllTexts(elems) ==
    IF elems = <<>> THEN <<>>
    ELSE (IF HasText(Head(elems)) THEN <<Head(elems).text[1]>> ELSE <<>>)
            \o Head(elems).ja \o AllTexts(Tail(elems))

pick_ja_or_first_tag_local(e, tag) ==
    LET ja == first_local(JaTexts(e.child[tag]))
    IN  IF ja # None THEN ja ELSE first_local(AllTexts(e.child[tag]))

\* xpath ./*[local-name()='author']/*[local-name()='ja']/*[local-name()='name']/text()
RECURSIVE AuthorJaNameTexts(_)
AuthorJaNameTexts(authors) ==
    IF authors = <<>> THEN <<>>
    ELSE Head(authors).ja \o AuthorJaNameTexts(Tail(authors))

\* xpath ./*[local-name()='author']/*[local-name()='name']/text()
RECURSIVE AuthorNameTexts(_)
AuthorNameTexts(authors) ==
    IF authors = <<>> THEN <<>>
    ELSE Head(authors).name \o AuthorNameTexts(Tail(authors))

\* mutant: the names of both forms, one list after the other
authors_local_both(e) ==
    texts_local(AuthorJaNameTexts(e.author))
        \o texts_local(AuthorNameTexts(e.author))

authors_local(e) ==
    LET ja == texts_local(AuthorJaNameTexts(e.author))
    IN  IF ja # <<>> THEN ja ELSE texts_local(AuthorNameTexts(e.author))

\* ------------------------------------------ fetch: the body of the for loop
\* the keys of the dict appended for an entry, in the order of the literal
RecordKeys ==
    <<"author", "article_title", "material_title", "cdjournal", "p_issn",
      "o_issn", "article_link", "pubyear", "doi", "volume", "cdvols",
      "number", "starting_page", "ending_page">>

\* the value of the key "cdvols"
cdvols(e) ==
    LET t == OwnTexts(e.child["cdvols"])
    IN  IF t # <<>> THEN Some(Strip(t[1])) ELSE None

\* the value the dict literal gives to a key
FieldOf(e, key) ==
    CASE key = "author"         -> authors_local(e)
      [] key = "article_title"  -> pick_ja_or_first_tag_local(e, "article_title")
      [] key = "material_title" -> pick_ja_or_first_tag_local(e, "material_title")
      [] key = "cdjournal"      -> get_first(e.child["cdjournal"])
      [] key = "p_issn"         -> get_first(e.child["issn"])
      [] key = "o_issn"         -> get_first(e.child["eIssn"])
      [] key = "article_link"   -> pick_ja_or_first_tag_local(e, "article_link")
      [] key = "pubyear"        -> get_first(e.child["pubyear"])
      [] key = "doi"            -> get_first(e.child["doi"])
      [] key = "volume"         -> get_first(e.child["volume"])
      [] key = "cdvols"         -> cdvols(e)
      [] key = "number"         -> get_first(e.child["number"])
      [] key = "starting_page"  -> get_first(e.child["startingPage"])
      [] key = "ending_page"    -> get_first(e.child["endingPage"])

\* the dict appended to all_data for an entry
RawRecord(e) ==
    [key \in {RecordKeys[i] : i \in 1..Len(RecordKeys)} |-> FieldOf(e, key)]

\* In the state of a call, all_data and entries hold for each dict and each
\* entry element its index in the result set of the service; Record(id) is
\* the dict.
Record(id) == RawRecord(RemoteEntry(id))

\* Record(id)[key]
RecordField(id, key) == FieldOf(RemoteEntry(id), key)

\* -------------------------------------------------------------------- state
VARIABLES
    pc,             \* "idle", "loop", "returned", "raised"
    exit,           \* the statement through which the call left ("none" before)
    err,            \* type of the exception raised ("none" if none)
    base_params,    \* dict of the search parameters
    max_records,    \* argument
    step,           \* argument
    owns_session,   \* session is None at the call
    session,        \* "None", "supplied" (the caller's), "created" (by fetch)
    closed,         \* session.close() has been called
    all_data,       \* the accumulator
    start_idx,      \* the cursor
    total_results,  \* None or Some(n)
    entries,        \* the entries of the last page whose entries were read
    requests,       \* the params of every GET issued, in order
    responses,      \* history: what each GET led to, in order
    sleeps,         \* number of time.sleep calls
    result,         \* None or Some(FetchResult)
    firstTotal,     \* history: the total of the first page that supplied one
    entry,          \* None or Some(the entry the body of the for loop is on)
    record,         \* None or Some(the dict the for loop builds from `entry`)
    sleep,          \* argument: the delay between two pages
    call,           \* which call of fetch this is: 1, or 2 for a repetition
    served,         \* history: the documents the service answered call 1 with
    first           \* history: None or Some(the outcome of call 1)

\* the variables of one call of fetch
fvars ==
    <<pc, exit, err, base_params, max_records, step, owns_session, session,
      closed, all_data, start_idx, total_results, entries, requests,
      responses, sleeps, result, firstTotal>>

\* the variables of the body of the for loop, taken alone
xvars == <<entry, record>>

\* the variables of a repetition of the call
rvars == <<sleep, call, served, first>>

vars == <<fvars, xvars, rvars>>

Init ==
    /\ pc = "idle"
    /\ exit = "none"
    /\ err = "none"
    /\ base_params = EmptyDict
    /\ max_records = 0
    /\ step = 0
    /\ owns_session = FALSE
    /\ session = "None"
    /\ closed = FALSE
    /\ all_data = <<>>
    /\ start_idx = 0
    /\ total_results = None
    /\ entries = <<>>
    /\ requests = <<>>
    /\ responses = <<>>
    /\ sleeps = 0
    /\ result = None
    /\ firstTotal = None
    /\ entry = None
    /\ record = None
    /\ sleep = DefaultSleep
    /\ call = 1
    /\ served = <<>>
    /\ first = None

\* ------------------------------------------------------------ fetch: set-up
\* mutant: the optional arguments tested with `is not None`
BuildBaseParamsNotNone(target_word, year, field, opt) ==
    LET p0 == Put(Put(EmptyDict, "service", <<"3">>), "pubyearfrom", Str(year))
        p1 == IF target_word # None /\ Strip(target_word[1]) # <<>>
              THEN Put(p0, field, Strip(target_word[1])) ELSE p0
        p2 == IF opt["material"] # None
              THEN Put(p1, "material", opt["material"][1]) ELSE p1
        p3 == IF opt["author"] # None
              THEN Put(p2, "author", opt["author"][1]) ELSE p2
        p4 == IF opt["affil"] # None
              THEN Put(p3, "affil", opt["affil"][1]) ELSE p3
        p5 == IF opt["issn"] # None
              THEN Put(p4, "issn", opt["issn"][1]) ELSE p4
    IN  IF opt["cdjournal"] # None
        THEN Put(p5, "cdjournal", opt["cdjournal"][1]) ELSE p5

\* base_params as built from the arguments
BuildBaseParams(target_word, year, field, opt) ==
    LET p0 == Put(Put(EmptyDict, "service", <<"3">>), "pubyearfrom", Str(year))
        p1 == IF target_word # None /\ Strip(target_word[1]) # <<>>
              THEN Put(p0, field, Strip(target_word[1])) ELSE p0
        p2 == IF Truthy(opt["material"])
              THEN Put(p1, "material", opt["material"][1]) ELSE p1
        p3 == IF Truthy(opt["author"])
              THEN Put(p2, "author", opt["author"][1]) ELSE p2
        p4 == IF Truthy(opt["affil"])
              THEN Put(p3, "affil", opt["affil"][1]) ELSE p3
        p5 == IF Truthy(opt["issn"])
              THEN Put(p4, "issn", opt["issn"][1]) ELSE p4
    IN  IF Truthy(opt["cdjournal"])
        THEN Put(p5, "cdjournal", opt["cdjournal"][1]) ELSE p5

\* any(k in base_params for k in SEARCH_PARAM_KEYS)
HasSearchTerm(bp) == \E k \in SEARCH_PARAM_KEYS : k \in DOMAIN bp

\* mutant: the search-term check left out
ValidationErrorNoTermCheck(target_word, year, field, mr, st, opt) ==
    IF field \notin ALLOWED_FIELDS THEN "field"
    ELSE IF mr <= 0 THEN "max_records"
    ELSE IF st <= 0 THEN "step"
    ELSE "none"

\* The check that raises ValueError, or "none": the checks in the order of
\* the code.
ValidationError(target_word, year, field, mr, st, opt) ==
    IF field \notin ALLOWED_FIELDS THEN "field"
    ELSE IF mr <= 0 THEN "max_records"
    ELSE IF st <= 0 THEN "step"
    ELSE IF ~HasSearchTerm(BuildBaseParams(target_word, year, field, opt))
         THEN "no_term"
    ELSE "none"

\* requests.Session() is called only when no session was passed
SessionAfterSetup(sess) == IF sess = "None" THEN "created" ELSE sess

\* fetch up to the `while True`, called with these arguments
FetchWith(target_word, field, mr, st, opt, sess) ==
    /\ pc = "idle"
    /\  LET v == ValidationError(target_word, DefaultYear, field, mr, st, opt)
        IN  /\ max_records' = mr
            /\ step' = st
            /\ IF v # "none"
               THEN /\ pc' = "raised"
                    /\ err' = "ValueError"
                    /\ exit' = v
                    /\ base_params' =
                         IF v = "no_term"
                         THEN BuildBaseParams(target_word, DefaultYear, field, opt)
                         ELSE base_params
                    /\ session' = sess
                    /\ UNCHANGED <<owns_session, start_idx>>
               ELSE /\ pc' = "loop"
                    /\ err' = "none"
                    /\ exit' = "none"
                    /\ base_params' =
                         BuildBaseParams(target_word, DefaultYear, field, opt)
                    /\ owns_session' = (sess = "None")
                    /\ session' = SessionAfterSetup(sess)
                    /\ start_idx' = 1
    /\ UNCHANGED <<closed, all_data, total_results, entries, requests,
                   responses, sleeps, result, firstTotal>>

FetchCall ==
    /\ pc = "idle"
    /\ \E target_word \in TargetWords, field \in Fields,
          mr \in MaxRecordsArgs, st \in StepArgs,
          opt \in OptionalArgSets, sess \in SessionArgs :
           FetchWith(target_word, field, mr, st, opt, sess)
    /\ UNCHANGED <<xvars, rvars>>

\* ------------------------------------------------------ fetch: one iteration
\* params of the GET of this iteration
PageParams(bp, start, st) ==
    [k \in (DOMAIN bp) \cup {"start", "count"} |->
        IF k = "start" THEN Str(start) ELSE IF k = "count" THEN Str(st) ELSE bp[k]]

\* mutant: the session closed whoever owns it
FinallyAlways == IF session # "None" THEN TRUE ELSE closed

\* the `finally` clause: the value of `closed` after it
Finally == IF owns_session /\ session # "None" THEN TRUE ELSE closed

\* _get_result_status
get_result_status(root) ==
    IF root.status # <<>>
    THEN LET s == Strip(root.status[1]) IN IF s # <<>> THEN Some(s) ELSE None
    ELSE None

\* mutant: every status ends the call
IsSentinelAnyStatus(status) == status # None

\* status == "ERR_001"
IsSentinel(status) == status = Some(SENTINEL)

IsOpenSearch(node) == node.ns = "opensearch"

TextsOf(nodes) == [i \in 1..Len(nodes) |-> nodes[i].text]

\* int(t): [raises |-> ValueError is raised, value |-> the int]
IntOf(t) ==
    IF IntParses(t) THEN [raises |-> FALSE, value |-> Some(ToInt(t))]
    ELSE [raises |-> TRUE, value |-> None]

\* _get_total_results_first
get_total_results_first(root) ==
    LET tr  == TextsOf(SelectSeq(root.totals, IsOpenSearch))
        tr2 == TextsOf(root.totals)
    IN  IF tr # <<>> /\ Strip(tr[1]) # <<>> THEN IntOf(Strip(tr[1]))
        ELSE IF tr2 # <<>> /\ Strip(tr2[1]) # <<>> THEN IntOf(Strip(tr2[1]))
        ELSE [raises |-> FALSE, value |-> None]

\* mutant: total_results read from every page
CaptureTotalOverwrite(cur, root) == get_total_results_first(root)

\* if total_results is None: total_results = _get_total_results_first(root)
CaptureTotal(cur, root) ==
    IF cur = None THEN get_total_results_first(root)
    ELSE [raises |-> FALSE, value |-> cur]

\* root.xpath("//atom:entry"): the i-th entry of the page that answers the
\* request with cursor `start` is row start + i - 1 of the remote result set
PageEntries(root, start) == [i \in 1..root.n |-> start + i - 1]

\* mutant: no break at max_records
ForEntriesNoBreak(acc, ents, mr) == acc \o ents

\* mutant: the break one record late
RECURSIVE ForEntriesOffByOne(_, _, _)
ForEntriesOffByOne(acc, ents, mr) ==
    IF ents = <<>> THEN acc
    ELSE LET a == Append(acc, Head(ents))
         IN  IF Len(a) > mr THEN a ELSE ForEntriesOffByOne(a, Tail(ents), mr)

\* mutant: an entry already in the accumulator is skipped
RECURSIVE ForEntriesDedup(_, _, _)
ForEntriesDedup(acc, ents, mr) ==
    IF ents = <<>> THEN acc
    ELSE IF \E i \in 1..Len(acc) : acc[i] = Head(ents)
         THEN ForEntriesDedup(acc, Tail(ents), mr)
    ELSE LET a == Append(acc, Head(ents))
         IN  IF Len(a) >= mr THEN a ELSE ForEntriesDedup(a, Tail(ents), mr)

\* for entry in entries: all_data.append(...); break at max_records
RECURSIVE ForEntries(_, _, _)
ForEntries(acc, ents, mr) ==
    IF ents = <<>> THEN acc
    ELSE LET a == Append(acc, Head(ents))
         IN  IF Len(a) >= mr THEN a ELSE ForEntries(a, Tail(ents), mr)

\* mutant: the loop stopped also when the cursor equals the total
PastTotalOrEqual(total, start) == total # None /\ start >= total[1]

\* total_results is not None and start_idx > total_results
PastTotal(total, start) == total # None /\ start > total[1]

\* pl.DataFrame(data): the rows (each the index of its dict, see Record),
\* the columns, which are the keys of the dicts and so none when there is no
\* dict, and the values of the column url_doi, which does not exist yet
DataFrame(data) ==
    [rows |-> data,
     columns |-> IF data = <<>> THEN <<>> ELSE RecordKeys,
     url_doi |-> <<>>]

DOI_PREFIX == <<"https://doi.org/">>

\* mutant: the prefix put before a null doi too
UrlDoiOfNull(doi) == IF doi # None THEN Some(DOI_PREFIX \o doi[1]) ELSE Some(DOI_PREFIX)

\* pl.when(doi.is_not_null()).then(concat_str([prefix, doi])).otherwise(None)
UrlDoi(doi) == IF doi # None THEN Some(DOI_PREFIX \o doi[1]) ELSE None

\* df.with_columns([...]): the casts keep their columns in place, the
\* alias url_doi is a new column after them
WithColumns(df) ==
    [df EXCEPT
        !.columns = Append(@, "url_doi"),
        !.url_doi = [i \in 1..Len(df.rows) |-> UrlDoi(RecordField(df.rows[i], "doi"))]]

\* cast(pl.Int32, strict=False) of a string: null unless it is a number
CastInt32(v) == IF v # None /\ IntParses(v[1]) THEN Some(ToInt(v[1])) ELSE None

\* the value of a column in row i of a table that went through with_columns
Cell(df, i, col) ==
    IF col = "url_doi" THEN df.url_doi[i]
    ELSE IF col \in {"pubyear", "starting_page", "ending_page"}
         THEN CastInt32(RecordField(df.rows[i], col))
    ELSE RecordField(df.rows[i], col)

\* df after `if not df.is_empty(): df = df.with_columns(...)`
Table(data) ==
    IF DataFrame(data).rows # <<>> THEN WithColumns(DataFrame(data))
    ELSE DataFrame(data)

\* mutant: the accumulated records left out of the table
EndResultNoRows(data, total) ==
    [df |-> DataFrame(<<>>),
     total_results |-> IF total = None THEN Some(Len(data)) ELSE total]

\* mutant: no fallback to the number of records when no total was captured
EndResultTotalUnset(data, total) ==
    [df |-> Table(data), total_results |-> total]

\* the FetchResult built after the loop
EndResult(data, total) ==
    [df |-> Table(data),
     total_results |-> IF total = None THEN Some(Len(data)) ELSE total]

\* the FetchResult returned on the sentinel status
SentinelResult == [df |-> DataFrame(<<>>), total_results |-> Some(0)]

\* mutant: the cursor advanced by one, not by step
LoopBodyCursorByOne(root, data, start, total, mr, st) ==
    LET ents == PageEntries(root, start)
        grown == ForEntries(data, ents, mr)
        same == [pexit |-> "continue", all_data |-> data, start_idx |-> start,
                 total_results |-> total, entries |-> ents]
    IN  IF start = 1 /\ ents = <<>> THEN [same EXCEPT !.pexit = "first_empty"]
        ELSE IF ents = <<>> THEN [same EXCEPT !.pexit = "empty"]
        ELSE IF Len(grown) = Len(data)
             THEN [same EXCEPT !.pexit = "no_progress", !.all_data = grown]
        ELSE IF Len(grown) >= mr
             THEN [same EXCEPT !.pexit = "limit", !.all_data = grown]
        ELSE IF PastTotal(total, start + 1)
             THEN [same EXCEPT !.pexit = "past_total", !.all_data = grown,
                               !.start_idx = start + 1]
        ELSE [same EXCEPT !.all_data = grown, !.start_idx = start + 1]

\* mutant: no break of the while loop at max_records
LoopBodyNoLimitBreak(root, data, start, total, mr, st) ==
    LET ents == PageEntries(root, start)
        grown == ForEntries(data, ents, mr)
        same == [pexit |-> "continue", all_data |-> data, start_idx |-> start,
                 total_results |-> total, entries |-> ents]
    IN  IF start = 1 /\ ents = <<>> THEN [same EXCEPT !.pexit = "first_empty"]
        ELSE IF ents = <<>> THEN [same EXCEPT !.pexit = "empty"]
        ELSE IF Len(grown) = Len(data)
             THEN [same EXCEPT !.pexit = "no_progress", !.all_data = grown]
        ELSE IF PastTotal(total, start + st)
             THEN [same EXCEPT !.pexit = "past_total", !.all_data = grown,
                               !.start_idx = start + st]
        ELSE [same EXCEPT !.all_data = grown, !.start_idx = start + st]

\* The loop body from the read of the entries on, with total_results as
\* captured: the statement that leaves the loop ("continue" if none does)
\* and the locals after it.
LoopBody(root, data, start, total, mr, st) ==
    LET ents == PageEntries(root, start)
        grown == ForEntries(data, ents, mr)
        same == [pexit |-> "continue", all_data |-> data, start_idx |-> start,
                 total_results |-> total, entries |-> ents]
    IN  IF start = 1 /\ ents = <<>> THEN [same EXCEPT !.pexit = "first_empty"]
        ELSE IF ents = <<>> THEN [same EXCEPT !.pexit = "empty"]
        ELSE IF Len(grown) = Len(data)
             THEN [same EXCEPT !.pexit = "no_progress", !.all_data = grown]
        ELSE IF Len(grown) >= mr
             THEN [same EXCEPT !.pexit = "limit", !.all_data = grown]
        ELSE IF PastTotal(total, start + st)
             THEN [same EXCEPT !.pexit = "past_total", !.all_data = grown,
                               !.start_idx = start + st]
        ELSE [same EXCEPT !.all_data = grown, !.start_idx = start + st]

\* One iteration from the parsed document on: the statement that leaves the
\* loop ("continue" if none does) and the locals after it.
Iteration(root, data, start, total, ents, mr, st) ==
    IF IsSentinel(get_result_status(root))
    THEN [pexit |-> "sentinel", all_data |-> data, start_idx |-> start,
          total_results |-> total, entries |-> ents]
    ELSE IF CaptureTotal(total, root).raises
    THEN [pexit |-> "total_int", all_data |-> data, start_idx |-> start,
          total_results |-> total, entries |-> ents]
    ELSE LoopBody(root, data, start, CaptureTotal(total, root).value, mr, st)

\* the iteration of the current state on the document `root`
Outcome(root) ==
    Iteration(root, all_data, start_idx, total_results, entries, max_records,
              step)

\* history: the total a page supplies, if it supplies one
SuppliedTotal(root) ==
    IF root.totals # <<>> /\ IntParses(Strip(root.totals[1].text))
    THEN Some(ToInt(Strip(root.totals[1].text)))
    ELSE None

\* history: what a request led to, and the number of entries of the document
Failed(kind) == [kind |-> kind, n |-> 0]

Parsed(root) == [kind |-> "xml", n |-> root.n]

\* session.get or raise_for_status raises requests.RequestException
RequestFails(kind) ==
    /\ pc = "loop"
    /\ requests' = Append(requests, PageParams(base_params, start_idx, step))
    /\ responses' = Append(responses, Failed(kind))
    /\ pc' = "raised"
    /\ err' = "JStageAPIError"
    /\ exit' = "request"
    /\ closed' = Finally
    /\ UNCHANGED <<base_params, max_records, step, owns_session, session,
                   all_data, start_idx, total_results, entries, sleeps,
                   result, firstTotal>>
    /\ UNCHANGED <<xvars, rvars>>

\* mutant: a body that does not parse ends the loop like an empty page
ParseFailsReturnsPartial ==
    /\ pc = "loop"
    /\ requests' = Append(requests, PageParams(base_params, start_idx, step))
    /\ responses' = Append(responses, Failed("bad_xml"))
    /\ pc' = "returned"
    /\ exit' = "parse"
    /\ result' = Some(EndResult(all_data, total_results))
    /\ closed' = Finally
    /\ UNCHANGED <<err, base_params, max_records, step, owns_session, session,
                   all_data, start_idx, total_results, entries, sleeps,
                   firstTotal>>
    /\ UNCHANGED <<xvars, rvars>>

\* etree.fromstring raises
ParseFails ==
    /\ pc = "loop"
    /\ requests' = Append(requests, PageParams(base_params, start_idx, step))
    /\ responses' = Append(responses, Failed("bad_xml"))
    /\ pc' = "raised"
    /\ err' = "JStageAPIError"
    /\ exit' = "parse"
    /\ closed' = Finally
    /\ UNCHANGED <<base_params, max_records, step, owns_session, session,
                   all_data, start_idx, total_results, entries, sleeps,
                   result, firstTotal>>
    /\ UNCHANGED <<xvars, rvars>>

\* the page carries the status ERR_001: return an empty FetchResult
PageSentinel(root) ==
    /\ pc = "loop"
    /\ IsSentinel(get_result_status(root))
    /\ requests' = Append(requests, PageParams(base_params, start_idx, step))
    /\ responses' = Append(responses, Parsed(root))
    /\ pc' = "returned"
    /\ exit' = "sentinel"
    /\ result' = Some(SentinelResult)
    /\ closed' = Finally
    /\ UNCHANGED <<err, base_params, max_records, step, owns_session, session,
                   all_data, start_idx, total_results, entries, sleeps,
                   firstTotal>>

\* int() of the totalResults text raises ValueError
PageTotalInvalid(root) ==
    /\ pc = "loop"
    /\ ~IsSentinel(get_result_status(root))
    /\ CaptureTotal(total_results, root).raises
    /\ requests' = Append(requests, PageParams(base_params, start_idx, step))
    /\ responses' = Append(responses, Parsed(root))
    /\ pc' = "raised"
    /\ err' = "ValueError"
    /\ exit' = "total_int"
    /\ closed' = Finally
    /\ UNCHANGED <<base_params, max_records, step, owns_session, session,
                   all_data, start_idx, total_results, entries, sleeps,
                   result, firstTotal>>

\* mutant: time.sleep at the end of every iteration, the last one too
PageProcessedSleepsAlways(root) ==
    /\ pc = "loop"
    /\ \E b \in {Outcome(root)} :
           /\ b.pexit \notin {"sentinel", "total_int"}
           /\ total_results' = b.total_results
           /\ all_data' = b.all_data
           /\ start_idx' = b.start_idx
           /\ entries' = b.entries
           /\ sleeps' = sleeps + 1
           /\ IF b.pexit = "continue"
              THEN UNCHANGED <<pc, exit, result, closed>>
              ELSE /\ pc' = "returned"
                   /\ exit' = b.pexit
                   /\ result' = Some(EndResult(b.all_data, b.total_results))
                   /\ closed' = Finally
    /\ requests' = Append(requests, PageParams(base_params, start_idx, step))
    /\ responses' = Append(responses, Parsed(root))
    /\ firstTotal' = IF firstTotal = None THEN SuppliedTotal(root) ELSE firstTotal
    /\ UNCHANGED <<err, base_params, max_records, step, owns_session, session>>

\* The page is processed (total captured, entries appended).  Either a
\* `break` leaves the loop, and the FetchResult is built and returned, or
\* fetch sleeps and the loop goes on.
PageProcessed(root) ==
    /\ pc = "loop"
    /\ \E b \in {Outcome(root)} :
           /\ b.pexit \notin {"sentinel", "total_int"}
           /\ total_results' = b.total_results
           /\ all_data' = b.all_data
           /\ start_idx' = b.start_idx
           /\ entries' = b.entries
           /\ IF b.pexit = "continue"
              THEN /\ sleeps' = sleeps + 1
                   /\ UNCHANGED <<pc, exit, result, closed>>
              ELSE /\ pc' = "returned"
                   /\ exit' = b.pexit
                   /\ result' = Some(EndResult(b.all_data, b.total_results))
                   /\ closed' = Finally
                   /\ UNCHANGED sleeps
    /\ requests' = Append(requests, PageParams(base_params, start_idx, step))
    /\ responses' = Append(responses, Parsed(root))
    /\ firstTotal' = IF firstTotal = None THEN SuppliedTotal(root) ELSE firstTotal
    /\ UNCHANGED <<err, base_params, max_records, step, owns_session, session>>

\* what fetch does with a response that parsed as the document `root`
PageStep(root) ==
    \/ PageSentinel(root)
    \/ PageTotalInvalid(root)
    \/ PageProcessed(root)

\* one iteration, on each kind of response that parses as XML
SentinelPage ==
    /\ pc = "loop"
    /\ \E root \in Pages : PageSentinel(root)
    /\ UNCHANGED <<xvars, rvars>>

InvalidTotalPage ==
    /\ pc = "loop"
    /\ \E root \in Pages : PageTotalInvalid(root)
    /\ UNCHANGED <<xvars, rvars>>

ProcessedPage ==
    /\ pc = "loop"
    /\ \E root \in Pages : PageProcessed(root)
    /\ UNCHANGED <<xvars, rvars>>

Next ==
    \/ FetchCall
    \/ \E kind \in RequestFailures : RequestFails(kind)
    \/ ParseFails
    \/ SentinelPage
    \/ InvalidTotalPage
    \/ ProcessedPage

Spec == Init /\ [][Next]_vars

\* no optional search argument passed
NoOptionalArgs == [k \in OptionalArgs |-> None]

\* a call with valid arguments: the search term "w" in the default field,
\* any max_records > 0, any step > 0, with or without a session
ValidFetchCall ==
    /\ pc = "idle"
    /\ \E mr \in 1..MaxRecords, st \in 1..MaxStep, sess \in SessionArgs :
           FetchWith(Some(<<"w">>), "article", mr, st, NoOptionalArgs, sess)
    /\ UNCHANGED <<xvars, rvars>>

FairNext ==
    \/ ValidFetchCall
    \/ \E kind \in RequestFailures : RequestFails(kind)
    \/ ParseFails
    \/ SentinelPage
    \/ InvalidTotalPage
    \/ ProcessedPage

\* A call with valid arguments that goes on as long as it can: fetch is
\* straight-line code between two responses, and the service answers every
\* request in some way (the timeout of session.get turns silence into a
\* RequestException).
FairSpec == Init /\ [][FairNext]_vars /\ WF_vars(FairNext)

\* ------------------------------------- the body of the for loop, taken alone
\* the for loop on an entry of XmlEntries
ExtractInit ==
    /\ pc = "for"
    /\ entry \in {Some(e) : e \in XmlEntries}
    /\ record = None
    /\ exit = "none"
    /\ err = "none"
    /\ base_params = EmptyDict
    /\ max_records = 0
    /\ step = 0
    /\ owns_session = FALSE
    /\ session = "None"
    /\ closed = FALSE
    /\ all_data = <<>>
    /\ start_idx = 0
    /\ total_results = None
    /\ entries = <<>>
    /\ requests = <<>>
    /\ responses = <<>>
    /\ sleeps = 0
    /\ result = None
    /\ firstTotal = None
    /\ sleep = DefaultSleep
    /\ call = 1
    /\ served = <<>>
    /\ first = None

\* the dict literal of all_data.append
BuildRecord ==
    /\ pc = "for"
    /\ record' = Some(RawRecord(entry[1]))
    /\ pc' = "appended"
    /\ UNCHANGED <<exit, err, base_params, max_records, step, owns_session,
                   session, closed, all_data, start_idx, total_results,
                   entries, requests, responses, sleeps, result, firstTotal,
                   entry, rvars>>

ExtractNext == BuildRecord

ExtractSpec == ExtractInit /\ [][ExtractNext]_vars

\* --------------------------------------------------- a call and its repeat
\* the argument sleep: no delay, or the default
SleepArgs == {0, DefaultSleep}

\* the documents of the service tried here: with or without the sentinel
\* status, with no total, a total or a malformed one, with any number of
\* entries
RepeatPages ==
    [status : {None, Some(SENTINEL)},
     totals : {None, Some([ns |-> "opensearch", text |-> Str(MaxTotal)]),
               Some([ns |-> "opensearch", text |-> <<"x">>])},
     n      : 0..MaxEntries]

\* the first call: fetch("w", max_records=mr, step=st, sleep=sl, session=sess)
FirstCall ==
    /\ pc = "idle"
    /\ call = 1
    /\ \E mr \in 1..MaxRecords, st \in 1..MaxStep, sess \in SessionArgs :
           FetchWith(Some(<<"w">>), "article", mr, st, NoOptionalArgs, sess)
    /\ sleep' \in SleepArgs
    /\ UNCHANGED <<xvars, call, served, first>>

\* an iteration of the first call; the document served is remembered
FirstCallPage ==
    /\ pc = "loop"
    /\ call = 1
    /\ \E root \in RepeatPages :
           /\ PageStep(root)
           /\ served' = Append(served, root)
    /\ UNCHANGED <<xvars, sleep, call, first>>

\* what the caller has of a call that is over
OutcomeOfCall ==
    [pc |-> pc, err |-> err, requests |-> requests, result |-> result,
     sleep |-> sleep, owns_session |-> owns_session]

\* mutant: the accumulator outlives the call (a module-level list)
StaleAccumulator ==
    /\ all_data' = all_data
    /\ start_idx' = 0
    /\ total_results' = None
    /\ entries' = <<>>
    /\ owns_session' = FALSE
    /\ session' = "None"

\* the locals of fetch belong to one call: the next call starts without them
FreshLocals ==
    /\ all_data' = <<>>
    /\ start_idx' = 0
    /\ total_results' = None
    /\ entries' = <<>>
    /\ owns_session' = FALSE
    /\ session' = "None"

\* the first call is over: the caller keeps its outcome, its frame is gone
CallIsOver ==
    /\ call = 1
    /\ pc \in {"returned", "raised"}
    /\ first' = Some(OutcomeOfCall)
    /\ call' = 2
    /\ FreshLocals
    /\ pc' = "idle"
    /\ exit' = "none"
    /\ err' = "none"
    /\ closed' = FALSE
    /\ requests' = <<>>
    /\ responses' = <<>>
    /\ sleeps' = 0
    /\ result' = None
    /\ firstTotal' = None
    /\ UNCHANGED <<base_params, max_records, step, xvars, sleep, served>>

\* the same call again: the same search term, max_records and step; the
\* delay and the session are chosen anew
RepeatCall ==
    /\ pc = "idle"
    /\ call = 2
    /\ \E sess \in SessionArgs :
           FetchWith(Some(<<"w">>), "article", max_records, step,
                     NoOptionalArgs, sess)
    /\ sleep' \in SleepArgs
    /\ UNCHANGED <<xvars, call, served, first>>

\* An iteration of the repeated call: the service answers a request it has
\* answered in the first call with the same document, and any other request
\* with any document.
RepeatCallPage ==
    /\ pc = "loop"
    /\ call = 2
    /\ LET params == PageParams(base_params, start_idx, step)
           seen == {j \in 1..Len(first[1].requests) :
                        j <= Len(served) /\ first[1].requests[j] = params}
       IN  IF seen # {}
           THEN \E j \in seen : PageStep(served[j])
           ELSE \E root \in RepeatPages : PageStep(root)
    /\ UNCHANGED <<xvars, rvars>>

RepeatNext ==
    \/ FirstCall
    \/ FirstCallPage
    \/ CallIsOver
    \/ RepeatCall
    \/ RepeatCallPage

RepeatSpec == Init /\ [][RepeatNext]_vars

\* ================================================================== claims
\* the call passed the validation of its arguments
Validated ==
    pc # "idle" /\ exit \notin {"field", "max_records", "step", "no_term"}

Min(a, b) == IF a <= b THEN a ELSE b

\* the rows of the table returned
Rows == result[1].df.rows

Returned == pc = "returned" /\ result # None

\* C1: the accumulator never holds more than max_records records; a page
\* adds to it the longest prefix of its entries that fits under max_records
\* and nothing else; and once the accumulator holds max_records records no
\* entry is appended and no request is issued any more.
C1_LimitState ==
    Validated =>
        /\ Len(all_data) <= max_records
        /\ Len(all_data) >= max_records => pc # "loop"

C1_LimitStep ==
    /\ all_data' # all_data =>
         all_data' = all_data \o
            SubSeq(entries', 1, Min(Len(entries'), max_records - Len(all_data)))
    /\ (Validated /\ Len(all_data) >= max_records) =>
         (all_data' = all_data /\ requests' = requests)

C1_AccumulatorBounded == [](C1_LimitState) /\ [][C1_LimitStep]_vars

\* the limit is reached in the middle of the second or a later page
C1_Witness ==
    /\ pc = "returned"
    /\ exit = "limit"
    /\ Len(requests) >= 2
    /\ Len(all_data) = max_records
    /\ responses[Len(responses)].n > 1
    /\ entries[Len(entries)] # all_data[Len(all_data)]

\* C2: a call that returns through the end of the loop returns as
\* total_results the total of the first page that supplied one, or the number
\* of rows if no page supplied one; and a captured total_results is never
\* changed by a later page.
C2_TotalState ==
    (Returned /\ exit # "sentinel") =>
        result[1].total_results =
            IF firstTotal # None THEN firstTotal ELSE Some(Len(Rows))

C2_TotalStep == total_results # None => total_results' = total_results

C2_FirstTotalWins == [](C2_TotalState) /\ [][C2_TotalStep]_vars

\* three pages fetched, a total captured that is not the number of rows
C2_Witness ==
    /\ Returned
    /\ exit # "sentinel"
    /\ Len(requests) >= 3
    /\ firstTotal # None
    /\ result[1].total_results = firstTotal
    /\ firstTotal # Some(Len(Rows))

\* the status text of the document, trimmed, is ERR_001
CarriesSentinel(root) ==
    root.status # <<>> /\ Strip(root.status[1]) = <<"ERR_001">>

WithoutStatus(root) == [root EXCEPT !.status = None]

\* C3: a page with the status ERR_001, first or later, makes fetch return,
\* without raising, zero rows and total_results = 0, and nothing is requested
\* after it; a page with another status or with none is handled exactly as
\* the same page without a status.
C3_SentinelState ==
    /\ exit = "sentinel" =>
        /\ pc = "returned"
        /\ err = "none"
        /\ result # None
        /\ Rows = <<>>
        /\ result[1].total_results = Some(0)
    /\ pc = "loop" =>
        \A root \in Pages :
            IF CarriesSentinel(root)
            THEN Outcome(root).pexit = "sentinel"
            ELSE /\ Outcome(root).pexit # "sentinel"
                 /\ Outcome(root) = Outcome(WithoutStatus(root))

C3_SentinelStep == exit = "sentinel" => requests' = requests

C3_SentinelEmpty == [](C3_SentinelState) /\ [][C3_SentinelStep]_vars

\* the sentinel arrives on a later page, after records were accumulated
C3_Witness ==
    /\ exit = "sentinel"
    /\ Returned
    /\ Len(requests) >= 2
    /\ all_data # <<>>
    /\ Rows = <<>>
    /\ result[1].total_results = Some(0)

\* C4 as stated: every graceful-empty termination (sentinel status, page
\* with zero entries, non-progressing page) returns exactly the records
\* accumulated from the pages processed before it.
C4_GracefulKeepsRecords ==
    (pc = "returned"
        /\ exit \in {"sentinel", "first_empty", "empty", "no_progress"}) =>
            (result # None /\ Rows = all_data)

\* C4 as amended: a termination by a page with zero entries or by a
\* non-progressing page returns, as a normal result, exactly the records
\* accumulated from the pages before it (that page adds none); a termination
\* by the sentinel status returns zero rows, whatever was accumulated.
C4_AmendedState ==
    /\ exit \in {"first_empty", "empty", "no_progress"} =>
        /\ pc = "returned"
        /\ err = "none"
        /\ result # None
        /\ Rows = all_data
    /\ exit = "sentinel" =>
        /\ pc = "returned"
        /\ err = "none"
        /\ result # None
        /\ Rows = <<>>

C4_AmendedStep ==
    exit' \in {"sentinel", "first_empty", "empty", "no_progress"} =>
        all_data' = all_data

C4_Amended == [](C4_AmendedState) /\ [][C4_AmendedStep]_vars

\* a later page with zero entries ends a call that had accumulated records
C4_Witness ==
    /\ exit = "empty"
    /\ Returned
    /\ all_data # <<>>
    /\ Rows = all_data

\* arguments the validation has to reject
BadArgs(target_word, field, mr, st, opt) ==
    \/ field \notin {"article", "abst", "text", "keyword"}
    \/ mr <= 0
    \/ st <= 0
    \/ /\ target_word = None \/ Strip(target_word[1]) = <<>>
       /\ \A k \in OptionalArgs : opt[k] = None \/ opt[k] = Some(<<>>)

\* C5: a call with a field outside the allowed set, with max_records <= 0,
\* with step <= 0 or with no usable search term raises ValueError, and at
\* that point no request has been issued and no session has been created.
C5_RejectState ==
    exit \in {"field", "max_records", "step", "no_term"} =>
        /\ pc = "raised"
        /\ err = "ValueError"
        /\ requests = <<>>
        /\ responses = <<>>
        /\ session # "created"
        /\ result = None

\* max_records and step hold the arguments of the call from its first step on
C5_RejectStep ==
    pc = "idle" =>
        \A target_word \in TargetWords, field \in Fields,
           opt \in OptionalArgSets, sess \in SessionArgs :
            (BadArgs(target_word, field, max_records', step', opt)
                /\ FetchWith(target_word, field, max_records', step', opt, sess)) =>
                    /\ pc' = "raised"
                    /\ err' = "ValueError"
                    /\ exit' \in {"field", "max_records", "step", "no_term"}

C5_InvalidArguments == [](C5_RejectState) /\ [][C5_RejectStep]_vars

\* only pubyearfrom would be sent: rejected before anything is requested
C5_Witness ==
    /\ pc = "raised"
    /\ err = "ValueError"
    /\ exit = "no_term"
    /\ max_records > 0
    /\ step > 0
    /\ requests = <<>>
    /\ session = "None"

\* C6: every request carries service, pubyearfrom, start and count, and at
\* least one of the nine search-term keys with a non-empty value.
C6_SearchTermInEveryRequest ==
    \A i \in 1..Len(requests) :
        /\ {"service", "pubyearfrom", "start", "count"} \subseteq DOMAIN requests[i]
        /\ \E k \in {"material", "article", "author", "affil", "keyword",
                     "abst", "text", "issn", "cdjournal"} :
              k \in DOMAIN requests[i] /\ requests[i][k] # <<>>

\* a later request whose only search term is an optional argument
C6_Witness ==
    /\ Len(requests) >= 2
    /\ "issn" \in DOMAIN requests[2]
    /\ "article" \notin DOMAIN requests[2]
    /\ "keyword" \notin DOMAIN requests[2]

FailureKinds == {"transport_error", "http_status_error", "bad_xml"}

\* C7: a request that fails (transport, HTTP status) or whose body does not
\* parse is the last request of the call, and the call raises JStageAPIError
\* and returns no FetchResult, whatever was accumulated before.
C7_FailureIsFatal ==
    \A i \in 1..Len(responses) :
        responses[i].kind \in FailureKinds =>
            /\ i = Len(responses)
            /\ Len(requests) = Len(responses)
            /\ pc = "raised"
            /\ err = "JStageAPIError"
            /\ result = None

\* a later page does not parse, after records were accumulated
C7_Witness ==
    /\ exit = "parse"
    /\ pc = "raised"
    /\ all_data # <<>>
    /\ Len(requests) >= 2
    /\ result = None

\* C8: past the validation, a call made without a session has created one,
\* and a created session is closed once the call has returned or raised; the
\* caller's session is never closed.
C8_SessionOwnership ==
    /\ Validated =>
        /\ session # "None"
        /\ owns_session <=> session = "created"
    /\ (session = "created" /\ pc \in {"returned", "raised"}) => closed
    /\ session = "supplied" => ~closed
    /\ closed => pc \in {"returned", "raised"}

\* the early return on the sentinel closes the session fetch created
C8_Witness ==
    /\ exit = "sentinel"
    /\ session = "created"
    /\ closed

\* every response so far parsed and held exactly step entries
PagesFull ==
    \A i \in 1..Len(responses) :
        responses[i].kind = "xml" /\ responses[i].n = step

\* C9: a call that has ended, whose every page held exactly step entries and
\* that was not stopped by a total (cursor past it, or its text not a number)
\* or by the sentinel, has returned exactly max_records rows after exactly
\* ceil(max_records / step) requests.
C9_FullPages ==
    (pc \in {"returned", "raised"} /\ responses # <<>> /\ PagesFull
        /\ exit \notin {"sentinel", "past_total", "total_int"}) =>
        /\ exit = "limit"
        /\ result # None
        /\ Len(Rows) = max_records
        /\ Len(requests) = (max_records + step - 1) \div step

\* max_records = 5 and pages of 3: 5 rows, 2 requests
C9_Witness ==
    /\ pc = "returned"
    /\ PagesFull
    /\ exit = "limit"
    /\ max_records = 5
    /\ step = 3
    /\ Len(Rows) = 5
    /\ Len(requests) = 2

\* C10: when the first page parses and holds zero entries, fetch returns a
\* zero-row result, does not raise, and has issued exactly one request.
C10_EmptyFirstPage ==
    (Len(responses) >= 1 /\ responses[1].kind = "xml" /\ responses[1].n = 0) =>
        /\ pc = "returned"
        /\ err = "none"
        /\ result # None
        /\ Rows = <<>>
        /\ Len(requests) = 1

\* C11 as stated: a call that returns with zero rows returns total_results = 0
\* whatever total the pages reported, and every call that returns returns a
\* total_results that is not None.
C11_ZeroRowsZeroTotal ==
    Returned =>
        /\ result[1].total_results # None
        /\ Rows = <<>> => result[1].total_results = Some(0)

\* C11 as amended: a call returns zero rows only on the sentinel status or on
\* a first page without entries; total_results is then 0 on the sentinel and
\* when that first page supplied no total, and otherwise the total that the
\* first page supplied; and every call that returns returns a total_results
\* that is not None.
C11_Amended ==
    Returned =>
        /\ result[1].total_results # None
        /\ Rows = <<>> =>
            /\ exit \in {"sentinel", "first_empty"}
            /\ result[1].total_results =
                 IF exit = "sentinel" \/ firstTotal = None
                 THEN Some(0) ELSE firstTotal

\* a first page without entries that reports a total other than 0
C11_Witness ==
    /\ Returned
    /\ exit = "first_empty"
    /\ Rows = <<>>
    /\ Len(requests) = 1
    /\ result[1].total_results = Some(MaxTotal)

Columns == result[1].df.columns

\* C12: the table of every call that returns, a table without rows included,
\* has exactly the 15 columns author, article_title, material_title,
\* cdjournal, p_issn, o_issn, article_link, pubyear, doi, volume, cdvols,
\* number, starting_page, ending_page, url_doi, in this order.
C12_FifteenColumns ==
    Returned =>
        Columns =
            <<"author", "article_title", "material_title", "cdjournal",
              "p_issn", "o_issn", "article_link", "pubyear", "doi", "volume",
              "cdvols", "number", "starting_page", "ending_page", "url_doi">>

\* the text nodes of the names of one form, over the authors in document order
RECURSIVE NamesOfForm(_, _)
NamesOfForm(authors, form) ==
    IF authors = <<>> THEN <<>>
    ELSE (IF form = "ja" THEN authors[1].ja ELSE authors[1].name)
            \o NamesOfForm(Tail(authors), form)

\* the names trimmed, the blank ones left out, nothing else changed
RECURSIVE Trimmed(_)
Trimmed(names) ==
    IF names = <<>> THEN <<>>
    ELSE (IF Strip(names[1]) = <<>> THEN <<>> ELSE <<Strip(names[1])>>)
            \o Trimmed(Tail(names))

\* C14: the author list built for an entry is the list of its language-tagged
\* (author/ja/name) names, in document order and with repetitions kept, when
\* at least one of them is not blank, and otherwise the list of its generic
\* (author/name) names, in document order and with repetitions kept; so an
\* entry with names in the generic form only gets a non-empty list, and the
\* two forms are never mixed.
C14_AuthorsPreferTagged ==
    record # None =>
        LET tagged  == Trimmed(NamesOfForm(entry[1].author, "ja"))
            generic == Trimmed(NamesOfForm(entry[1].author, "name"))
        IN  /\ record[1].author = IF tagged # <<>> THEN tagged ELSE generic
            /\ (tagged = <<>> /\ generic # <<>>) => record[1].author # <<>>

\* two authors, the only tagged name blank: the generic names, in order
C14_Witness ==
    /\ pc = "appended"
    /\ record # None
    /\ entry[1].author =
         << [ja |-> << <<WS>> >>, name |-> << <<WS, "B">>, <<"A">> >>],
            [ja |-> <<>>, name |-> << <<"A">>, <<"A">> >>] >>
    /\ record[1].author = << <<"B">>, <<"A">>, <<"A">>, <<"A">> >>

\* C15: in every row of the table of a call that returns, url_doi is
\* "https://doi.org/" followed by the doi of the row when the row has a doi,
\* and null when its doi is null.
C15_UrlDoi ==
    Returned =>
        \A i \in 1..Len(Rows) :
            LET doi == Cell(result[1].df, i, "doi")
                url == Cell(result[1].df, i, "url_doi")
            IN  /\ doi # None => url = Some(<<"https://doi.org/">> \o doi[1])
                /\ doi = None => url = None
                /\ doi = Some(<<"10.1234/abcd">>) =>
                     url = Some(<<"https://doi.org/", "10.1234/abcd">>)

\* a table whose first row has the DOI 10.1234/abcd and whose second has none
C15_Witness ==
    /\ Returned
    /\ Len(Rows) >= 2
    /\ Cell(result[1].df, 1, "doi") = Some(<<"10.1234/abcd">>)
    /\ Cell(result[1].df, 1, "url_doi") = Some(<<"https://doi.org/", "10.1234/abcd">>)
    /\ Cell(result[1].df, 2, "doi") = None
    /\ Cell(result[1].df, 2, "url_doi") = None

\* the base search parameters of a request: all but start and count
BaseOf(params) == [k \in (DOMAIN params) \ {"start", "count"} |-> params[k]]

\* C16: the requests of a call are issued one at a time, each after the
\* response to the one before; the first has start = 1, each later one has
\* start exactly step greater than the one before, every one has
\* count = step, and the base search parameters are the same on all of them.
C16_CursorState ==
    /\ pc = "loop" => Len(responses) = Len(requests)
    /\ \A i \in 1..Len(requests) :
        /\ i <= Len(responses) + 1
        /\ requests[i]["start"] = Str(1 + (i - 1) * step)
        /\ requests[i]["count"] = Str(step)
        /\ BaseOf(requests[i]) = BaseOf(requests[1])
        /\ BaseOf(requests[i]) = base_params

C16_CursorStep ==
    requests' # requests =>
        /\ Len(requests') = Len(requests) + 1
        /\ Len(responses) = Len(requests)
        /\ SubSeq(requests', 1, Len(requests)) = requests

C16_SequentialCursor == [](C16_CursorState) /\ [][C16_CursorStep]_vars

\* four requests of one call, with step 3: start = 1, 4, 7, 10
C16_Witness ==
    /\ Len(requests) = 4
    /\ step = 3
    /\ requests[1]["start"] = <<"1">>
    /\ requests[2]["start"] = <<"4">>
    /\ requests[3]["start"] = <<"7">>
    /\ requests[4]["start"] = <<"1", "0">>
    /\ requests[4]["count"] = <<"3">>

\* C17: when a page was processed and the cursor advanced by step, the loop
\* stops if a total is captured and the new cursor is greater than it, and
\* goes on to one more request if the new cursor equals it; so no request is
\* issued with a start greater than a total captured before the request.
C17_TotalState ==
    (pc = "loop" /\ total_results # None) => start_idx <= total_results[1]

C17_TotalStep ==
    /\ (requests' # requests /\ total_results # None) =>
          /\ requests'[Len(requests')]["start"] = Str(start_idx)
          /\ start_idx <= total_results[1]
    /\ (pc = "loop" /\ start_idx' = start_idx + step /\ total_results' # None) =>
          /\ start_idx' > total_results'[1] =>
                (pc' = "returned" /\ exit' = "past_total")
          /\ start_idx' = total_results'[1] => pc' = "loop"
    /\ (pc = "loop" /\ total_results = Some(start_idx)) =>
          Len(requests') = Len(requests) + 1

C17_StopPastTotal == [](C17_TotalState) /\ [][C17_TotalStep]_vars

\* the cursor has been advanced onto the captured total and the loop goes on
C17_Witness ==
    /\ pc = "loop"
    /\ Len(requests) = 1
    /\ start_idx = 1 + step
    /\ total_results = Some(start_idx)

\* C18: fetch sleeps once after every page that does not end the call and at
\* no other time: none before the first request, none after the page on
\* which the call ends (limit, empty page, sentinel, cursor past the total,
\* error); a call that has ended after n >= 1 requests has slept n - 1 times.
C18_SleepState ==
    /\ requests = <<>> => sleeps = 0
    /\ pc = "loop" => sleeps = Len(requests)
    /\ (pc \in {"returned", "raised"} /\ requests # <<>>) =>
          sleeps = Len(requests) - 1

C18_SleepStep ==
    sleeps' # sleeps =>
        /\ sleeps' = sleeps + 1
        /\ Len(requests') = Len(requests) + 1
        /\ pc' = "loop"

C18_SleepBetweenPages == [](C18_SleepState) /\ [][C18_SleepStep]_vars

\* a call that ended at the limit after three requests and two sleeps
C18_Witness ==
    /\ pc = "returned"
    /\ exit = "limit"
    /\ Len(requests) = 3
    /\ sleeps = 2

Ended == pc \in {"returned", "raised"}

\* C19: every call ends, whatever the responses: an iteration of the loop
\* either ends the call or makes the accumulator strictly longer, and a call
\* issues at most max_records requests.
C19_ProgressState == Validated => Len(requests) <= max_records

C19_ProgressStep ==
    /\ pc = "loop" => (Ended' \/ Len(all_data') > Len(all_data))
    /\ Ended => UNCHANGED vars

C19_Terminates ==
    [](C19_ProgressState) /\ [][C19_ProgressStep]_vars /\ <>Ended

\* a call that used all the requests max_records allows
C19_Witness ==
    /\ Ended
    /\ max_records = MaxRecords
    /\ Len(requests) = max_records

\* the entries of the pages fetched up to request i, in request order and
\* document order: the j-th entry of the page of request i is the entry at
\* index 1 + (i - 1) * step + (j - 1) of the result set
RECURSIVE EntriesUpTo(_)
EntriesUpTo(i) ==
    IF i = 0 THEN <<>>
    ELSE EntriesUpTo(i - 1)
            \o [j \in 1..responses[i].n |-> 1 + (i - 1) * step + (j - 1)]

\* C20: at the start of every iteration the accumulator is shorter than
\* max_records, every page with an entry makes it longer, the no-progress
\* check never ends the loop, and the rows returned through the end of the
\* loop are the entries of the pages fetched, in request order and document
\* order, cut at max_records: nothing reordered, nothing removed as a
\* duplicate.
C20_RowsState ==
    /\ pc = "loop" => Len(all_data) < max_records
    /\ exit # "no_progress"
    /\ (Returned /\ exit # "sentinel") =>
          Rows = SubSeq(EntriesUpTo(Len(responses)), 1,
                        Min(Len(EntriesUpTo(Len(responses))), max_records))

C20_RowsStep ==
    (/\ pc = "loop"
     /\ responses'[Len(responses')].kind = "xml"
     /\ responses'[Len(responses')].n >= 1
     /\ exit' \notin {"sentinel", "total_int"}) =>
        Len(all_data') > Len(all_data)

C20_RowsAreThePages == [](C20_RowsState) /\ [][C20_RowsStep]_vars

\* pages of 4 entries for step = 3: the entry at index 4 is served twice and
\* returned twice
C20_Witness ==
    /\ Returned
    /\ exit = "limit"
    /\ step = 3
    /\ Len(requests) = 2
    /\ Rows = <<1, 2, 3, 4, 4>>

\* C13: a call repeated with the same parameters, against a service that
\* answers each request it answered before with the same document, issues
\* the same requests in the same order and ends the same way, with the same
\* number of rows and the same total_results, whatever the delay of either
\* call and whether the session of either call is the caller's or its own.
C13_SameOutcome ==
    call = 2 =>
        /\ Len(requests) <= Len(first[1].requests)
        /\ requests = SubSeq(first[1].requests, 1, Len(requests))
        /\ pc \in {"returned", "raised"} =>
            /\ requests = first[1].requests
            /\ pc = first[1].pc
            /\ err = first[1].err
            /\ result # None =>
                /\ Len(Rows) = Len(first[1].result[1].df.rows)
                /\ result[1].total_results = first[1].result[1].total_results

\* both calls returned rows after three requests; the delay and the owner of
\* the session differ between them
C13_Witness ==
    /\ call = 2
    /\ pc = "returned"
    /\ Len(requests) = 3
    /\ Rows # <<>>
    /\ sleep # first[1].sleep
    /\ owns_session # first[1].owns_session

====
